---- MODULE Spec2Model ----
(***************************************************************************)
(* A model of programs/build_page.py: the showtime scraper that fetches    *)
(* listing pages per cinema and date, parses movie cards into records,     *)
(* caches thumbnails on disk and renders a day -> film -> cinema page.     *)
(*                                                                         *)
(* Text is modelled as a sequence of one-character strings, so that        *)
(* character removal, stripping and Python's code-point string order are   *)
(* computed rather than assumed.                                           *)
(***************************************************************************)
EXTENDS Integers, Sequences, FiniteSets, TLC

VARIABLES
    pc,            \* position of the running function
    today,         \* current_date.weekday(), 0 = Monday
    ci,            \* index of the cinema being scraped (order of CINEMAS_BY_CODE)
    di,            \* index k of the date today + k being scraped
    pn,            \* index into PAGES_TO_SCRAPE of the page being requested
    scraped_data,  \* main's list of records
    files,         \* names of the files present in OUTPUT_DIR
    output,        \* the printed document
    requests,      \* the pages requested for the latest (cinema, date) and what each gave
    arg,           \* argument of the function under study
    ret            \* its result

vars == <<pc, today, ci, di, pn, scraped_data, files, output, requests, arg, ret>>

\* Python's None, beside texts (no text is the one-element sequence <<"None">>)
None == <<"None">>

\* fetch_url_content's None, beside documents
NoDocument == [holder |-> FALSE, cards |-> <<>>, none |-> TRUE]

----------------------------------------------------------------------------
(* Bounds of the model *)

MaxTitleLen == 3

\* the listings of one run hold at most this many showings
MaxScraped == 2

\* a run scrapes the first MaxCinemas cinemas of CINEMAS_BY_CODE
MaxCinemas == 2

\* hour blocks of one card, cards of one page, calls of download_image and
\* rows of one film's frame
MaxHours == 2
MaxCards == 2
MaxCalls == 2
MaxRows == 3

----------------------------------------------------------------------------
(* Text helpers *)

\* Characters of the model in code-point order (Python compares str by code point).
CodePointOrder ==
    <<"\t", "\n", "\r", " ", "\"", "*", ".", "/", "0", "1", "2", "3", "4",
      "5", "6", "7", "8", "9", ":", "<", ">", "?", "A", "B", "D", "F", "N",
      "P", "T", "U", "a", "b", "c", "e", "f", "g", "h", "i", "j", "k", "l",
      "m", "n", "o", "p", "q", "r", "s", "t", "u", "v", "w", "x", "y", "|",
      "è">>

Ord(c) == CHOOSE i \in 1..Len(CodePointOrder) : CodePointOrder[i] = c

Min2(a, b) == IF a < b THEN a ELSE b

\* s < t for Python str
StrLess(s, t) ==
    \E k \in 1..(Min2(Len(s), Len(t)) + 1) :
        /\ \A j \in 1..(k - 1) : s[j] = t[j]
        /\ \/ k = Len(s) + 1 /\ k <= Len(t)
           \/ k <= Len(s) /\ k <= Len(t) /\ Ord(s[k]) < Ord(t[k])

\* str.replace(ch, "")
RECURSIVE Replace(_, _)
Replace(s, ch) ==
    IF s = <<>> THEN <<>>
    ELSE IF Head(s) = ch THEN Replace(Tail(s), ch)
    ELSE <<Head(s)>> \o Replace(Tail(s), ch)

IsSpace(c) == c \in {" ", "\t", "\n", "\r"}

RECURSIVE LStrip(_)
LStrip(s) == IF s # <<>> /\ IsSpace(Head(s)) THEN LStrip(Tail(s)) ELSE s

RECURSIVE RStrip(_)
RStrip(s) ==
    IF s # <<>> /\ IsSpace(s[Len(s)]) THEN RStrip(SubSeq(s, 1, Len(s) - 1)) ELSE s

\* str.strip()
Strip(s) == RStrip(LStrip(s))

----------------------------------------------------------------------------
(* normalize_path_component and the cache filename *)

problem_chars == <<"\"", ":", "<", ">", "|", "*", "?", "\r", "\n", "/">>

RECURSIVE RemoveEach(_, _)
RemoveEach(s, chars) ==
    IF chars = <<>> THEN s ELSE RemoveEach(Replace(s, Head(chars)), Tail(chars))

\* normalize_path_component with the list of line 38 before "/" was added
normalize_path_component_keep_slash(filename_component) ==
    Strip(RemoveEach(filename_component, SubSeq(problem_chars, 1, Len(problem_chars) - 1)))

normalize_path_component(filename_component) ==
    Strip(RemoveEach(filename_component, problem_chars))

DotJpg == <<".", "j", "p", "g">>

\* image_filename = f"{normalized_film_name}.jpg"
ImageFilename(film_name) == normalize_path_component(film_name) \o DotJpg

----------------------------------------------------------------------------
(* The thumbnail cache: download_image *)

\* What the network and the filesystem answer to one thumbnail download:
\*   ok        the GET succeeds and the file is written
\*   neterr    session.get / raise_for_status raises a RequestException
\*   fs_open   os.makedirs or open raises OSError (no file is created)
\*   fs_write  f.write raises OSError (open already created the file)
DownloadOutcomes == {"ok", "neterr", "fs_open", "fs_write"}

\* download_image without the isfile test: fetches on every call
download_image_always(url, filepath, disk, dl) ==
    [files   |-> IF dl \in {"ok", "fs_write"} THEN disk \cup {filepath} ELSE disk,
     fetched |-> 1,
     result  |-> IF dl = "ok" THEN "True"
                 ELSE IF dl = "neterr" THEN "False" ELSE "OSError"]

\* download_image(url, filepath, session) on a disk holding the files `disk`;
\* result is the returned value, or "OSError" when that exception leaves it
download_image(url, filepath, disk, dl) ==
    IF filepath \notin disk
    THEN [files   |-> IF dl \in {"ok", "fs_write"} THEN disk \cup {filepath} ELSE disk,
          fetched |-> 1,
          result  |-> IF dl = "ok" THEN "True"
                      ELSE IF dl = "neterr" THEN "False" ELSE "OSError"]
    ELSE [files |-> disk, fetched |-> 0, result |-> "False"]

----------------------------------------------------------------------------
(* The page parser: parse_showtime_hour, parse_movie_div, parse_page_results *)

\* An hour element holds the text of its singular and of its plural value
\* span, None for a span that is absent. A present span is truthy whatever
\* its text (a tag is true even when empty).
parse_showtime_hour(hour_element) ==
    IF hour_element.singular # None THEN Strip(hour_element.singular)
    ELSE IF hour_element.plural # None THEN Strip(hour_element.plural)
    ELSE None

\* `if st`: None and the empty string are false
Truthy(st) == st # None /\ st # <<>>

RECURSIVE MapHours(_)
MapHours(hour_elements) ==
    IF hour_elements = <<>> THEN <<>>
    ELSE <<parse_showtime_hour(Head(hour_elements))>> \o MapHours(Tail(hour_elements))

RECURSIVE FilterTruthy(_)
FilterTruthy(sts) ==
    IF sts = <<>> THEN <<>>
    ELSE IF Truthy(Head(sts)) THEN <<Head(sts)>> \o FilterTruthy(Tail(sts))
    ELSE FilterTruthy(Tail(sts))

NoSynopsis ==
    <<"N", "o", " ", "s", "y", "n", "o", "p", "s", "i", "s", " ", "a", "v",
      "a", "i", "l", "a", "b", "l", "e", ".">>

UnknownFilm == <<"U", "n", "k", "n", "o", "w", "n", " ", "F", "i", "l", "m">>

\* A card (div_element) is a record
\*   title    text of a.meta-title-link, None when the tag is absent
\*   synopsis text of div.synopsis, None when absent
\*   date     text of span.date, None when absent
\*   anchor   whether div.showtimes-anchor is present
\*   hours    the div.showtimes-hour-block elements under the anchor
\*   dl       what the thumbnail download meets (DownloadOutcomes)
\*   fault    where an exception is raised while the card is processed:
\*            0 nowhere, 1 in lines 95-96 (film_name not yet bound),
\*            2 in lines 98-105 (before the download), 3 in lines 117-121
\*   img      [present, data_src, src]: whether img.thumbnail-img is present
\*            and its attributes (None for an attribute that is missing)
ThumbnailUrl(div_element) ==
    IF ~div_element.img.present THEN None
    ELSE IF div_element.img.data_src # None THEN div_element.img.data_src
    ELSE div_element.img.src

\* Outcome of parse_movie_div: the records returned, the disk afterwards, the
\* number of thumbnail GETs issued, the exceptions the handler printed, and
\* whether an exception left the function.
Outcome(records, disk, fetched, printed, raised) ==
    [records |-> records, files |-> disk, fetched |-> fetched,
     printed |-> printed, raised |-> raised]

NoDownload(disk) == [files |-> disk, fetched |-> 0, result |-> "False"]

\* parse_movie_div without the filter of line 121
parse_movie_div_no_filter(div_element, disk) ==
    LET film_name == IF div_element.title # None THEN Strip(div_element.title) ELSE UnknownFilm
        hour_elements == IF div_element.anchor THEN div_element.hours ELSE <<>>
        showtimes == MapHours(hour_elements)
    IN  Outcome([i \in 1..Len(showtimes) |->
                    <<film_name, <<>>, NoSynopsis, showtimes[i], ImageFilename(film_name)>>],
                disk, 0, <<>>, FALSE)

\* parse_movie_div with a handler that catches parsing errors only
parse_movie_div_fs_uncaught(div_element, disk) ==
    LET film_name == IF div_element.title # None THEN Strip(div_element.title) ELSE UnknownFilm
        thumbnail_url == ThumbnailUrl(div_element)
        d == IF Truthy(thumbnail_url)
             THEN download_image(thumbnail_url, ImageFilename(film_name), disk, div_element.dl)
             ELSE NoDownload(disk)
        showtimes == FilterTruthy(MapHours(IF div_element.anchor THEN div_element.hours ELSE <<>>))
    IN  IF div_element.fault # 0 THEN Outcome(<<>>, disk, 0, <<"ParseError">>, FALSE)
        ELSE IF d.result = "OSError" THEN Outcome(<<>>, d.files, d.fetched, <<>>, TRUE)
        ELSE Outcome([i \in 1..Len(showtimes) |->
                        <<film_name, <<>>, NoSynopsis, showtimes[i], ImageFilename(film_name)>>],
                     d.files, d.fetched, <<>>, FALSE)

parse_movie_div(div_element, disk) ==
    IF div_element.fault = 1
    THEN \* the handler formats film_name, which is not bound yet: the
         \* UnboundLocalError it raises leaves the function
         Outcome(<<>>, disk, 0, <<>>, TRUE)
    ELSE
    LET film_name == IF div_element.title # None THEN Strip(div_element.title) ELSE UnknownFilm
        synopsis == IF div_element.synopsis # None THEN Strip(div_element.synopsis)
                    ELSE NoSynopsis
        hour_elements == IF div_element.anchor THEN div_element.hours ELSE <<>>
        thumbnail_url == ThumbnailUrl(div_element)
        image_filename == ImageFilename(film_name)
        image_save_path == image_filename    \* os.path.join(OUTPUT_DIR, image_filename)
        d == IF Truthy(thumbnail_url)
             THEN download_image(thumbnail_url, image_save_path, disk, div_element.dl)
             ELSE NoDownload(disk)
        release_date == IF div_element.date # None THEN Strip(div_element.date) ELSE <<>>
        showtimes == FilterTruthy(MapHours(hour_elements))
    IN  IF div_element.fault = 2 THEN Outcome(<<>>, disk, 0, <<"ParseError">>, FALSE)
        ELSE IF d.result = "OSError"
            THEN Outcome(<<>>, d.files, d.fetched, <<"OSError">>, FALSE)
        ELSE IF div_element.fault = 3
            THEN Outcome(<<>>, d.files, d.fetched, <<"ParseError">>, FALSE)
        ELSE IF showtimes = <<>> THEN Outcome(<<>>, d.files, d.fetched, <<>>, FALSE)
        ELSE Outcome([i \in 1..Len(showtimes) |->
                        <<film_name, release_date, synopsis, showtimes[i], image_filename>>],
                     d.files, d.fetched, <<>>, FALSE)

\* The loop of parse_page_results over movie_cards; an exception leaving
\* parse_movie_div leaves the loop, and the records gathered so far with it.
RECURSIVE ParseCards(_, _)
ParseCards(movie_cards, acc) ==
    IF movie_cards = <<>> THEN acc
    ELSE LET r == parse_movie_div(Head(movie_cards), acc.files)
         IN  IF r.raised
             THEN Outcome(<<>>, r.files, acc.fetched + r.fetched, acc.printed, TRUE)
             ELSE ParseCards(Tail(movie_cards),
                             Outcome(acc.records \o r.records, r.files,
                                     acc.fetched + r.fetched,
                                     acc.printed \o r.printed, FALSE))

\* A fetched document is None or [holder, cards]: whether it has the
\* showtimes-list-holder div, and the movie cards inside it.
parse_page_results(beautifulsoup_results, disk) ==
    IF beautifulsoup_results = NoDocument THEN Outcome(<<>>, disk, 0, <<>>, FALSE)
    ELSE IF ~beautifulsoup_results.holder THEN Outcome(<<>>, disk, 0, <<>>, FALSE)
    ELSE ParseCards(beautifulsoup_results.cards, Outcome(<<>>, disk, 0, <<>>, FALSE))

----------------------------------------------------------------------------
(* The fetcher: fetch_url_content, scrape_single_page *)

\* What one page GET meets. All the failures are RequestExceptions:
\* ConnectionError, Timeout, HTTPError (raise_for_status on a 4xx/5xx
\* answer) and RetryError (the retry budget on 500/502/503/504 is spent).
FetchFailures == {"connection_error", "timeout", "http_error", "retry_error"}
FetchOutcomes == {"ok"} \cup FetchFailures

\* fetch_url_content without raise_for_status: an error answer is parsed
fetch_url_content_no_status_check(outcome, document) ==
    IF outcome \in {"ok", "http_error"} THEN document ELSE NoDocument

\* fetch_url_content(url, session): `document` is the body the site answers
\* with; the result is the parsed document or NoDocument (None)
fetch_url_content(outcome, document) ==
    IF outcome = "ok" THEN document ELSE NoDocument

scrape_single_page(outcome, document, disk) ==
    LET soup_content == fetch_url_content(outcome, document)
    IN  IF soup_content # NoDocument THEN parse_page_results(soup_content, disk)
        ELSE Outcome(<<>>, disk, 0, <<>>, FALSE)

----------------------------------------------------------------------------
(* Configuration: programs/config_data.py and the constants of build_page *)

bercy == <<"b", "e", "r", "c", "y">>
nation == <<"n", "a", "t", "i", "o", "n">>
bibliotheque == <<"b", "i", "b", "l", "i", "o", "t", "h", "è", "q", "u", "e">>
filmotheque == <<"f", "i", "l", "m", "o", "t", "h", "è", "q", "u", "e">>
bastille == <<"b", "a", "s", "t", "i", "l", "l", "e">>
majestic == <<"m", "a", "j", "e", "s", "t", "i", "c">>

\* the dict in insertion order
CINEMAS_BY_CODE ==
    << [code |-> "C0026", name |-> bercy],
       [code |-> "C0144", name |-> nation],
       [code |-> "C2954", name |-> bibliotheque],
       [code |-> "C0020", name |-> filmotheque],
       [code |-> "C0040", name |-> bastille],
       [code |-> "C0139", name |-> majestic] >>

DAYS_BY_INDEX ==
    [i \in 0..6 |->
        <<"Lundi", "Mardi", "Mercredi", "Jeudi", "Vendredi", "Samedi", "Dimanche">>[i + 1]]

NUM_DAYS_TO_SCRAPE == 7

PAGES_TO_SCRAPE == <<1, 2>>

\* (current_date + timedelta(days=k)).weekday()
Weekday(k) == (today + k) % 7

----------------------------------------------------------------------------
(* The aggregator and the renderer. A row of the DataFrame is the tuple    *)
(* <<cinema, jour, film, jour_sortie, synopsis, heure, image_filename>>.   *)

cinema(row) == row[1]
jour(row) == row[2]
film(row) == row[3]
jour_sortie(row) == row[4]
synopsis_of(row) == row[5]
heure(row) == row[6]
image_filename_of(row) == row[7]

\* Series.unique(): the distinct values in order of first appearance
RECURSIVE Unique(_)
Unique(values) ==
    IF values = <<>> THEN <<>>
    ELSE LET init == Unique(SubSeq(values, 1, Len(values) - 1))
             x == values[Len(values)]
         IN  IF \E i \in 1..Len(init) : init[i] = x THEN init ELSE Append(init, x)

\* sorted() of texts: a stable insertion sort by Python's str order
RECURSIVE InsertStr(_, _)
InsertStr(sorted, x) ==
    IF sorted = <<>> THEN <<x>>
    ELSE IF StrLess(x, Head(sorted)) THEN <<x>> \o sorted
    ELSE <<Head(sorted)>> \o InsertStr(Tail(sorted), x)

RECURSIVE SortedStr(_)
SortedStr(values) ==
    IF values = <<>> THEN <<>>
    ELSE InsertStr(SortedStr(SubSeq(values, 1, Len(values) - 1)), values[Len(values)])

\* sep.join(parts)
RECURSIVE Join(_, _)
Join(parts, sep) ==
    IF parts = <<>> THEN <<>>
    ELSE IF Len(parts) = 1 THEN parts[1]
    ELSE parts[1] \o sep \o Join(Tail(parts), sep)

Column(df, col(_)) == [i \in 1..Len(df) |-> col(df[i])]

RECURSIVE Where(_, _, _)
Where(df, col(_), value) ==
    IF df = <<>> THEN <<>>
    ELSE IF col(Head(df)) = value THEN <<Head(df)>> \o Where(Tail(df), col, value)
    ELSE Where(Tail(df), col, value)

\* build_seances_string_for_film without unique()
build_seances_string_for_film_dup(cinema_name, film_results_df) ==
    Join(SortedStr(Column(Where(film_results_df, cinema, cinema_name), heure)), <<"/">>)

build_seances_string_for_film(cinema_name, film_results_df) ==
    LET cinema_specific_results == Where(film_results_df, cinema, cinema_name)
        unique_hours == SortedStr(Unique(Column(cinema_specific_results, heure)))
    IN  Join(unique_hours, <<"/">>)

generate_seance_summary_for_film(film_results_df) ==
    LET cinemas == SortedStr(Unique(Column(film_results_df, cinema)))
        seance_strings ==
            [i \in 1..Len(cinemas) |->
                cinemas[i] \o <<" ">>
                    \o build_seances_string_for_film(cinemas[i], film_results_df)
                    \o <<"<", "b", "r", ">">>]
    IN  Join(seance_strings, <<"\n">>)

\* str.replace(".jpg", ""): every occurrence of the suffix text removed
RECURSIVE RemoveDotJpg(_)
RemoveDotJpg(s) ==
    IF Len(s) < 4 THEN s
    ELSE IF SubSeq(s, 1, 4) = DotJpg THEN RemoveDotJpg(SubSeq(s, 5, Len(s)))
    ELSE <<Head(s)>> \o RemoveDotJpg(Tail(s))

\* film_template.render(...): the template is external, the block is the
\* record of what it is given
render_film_html(film_name, film_data_df) ==
    [template     |-> "film_section.html",
     film_name    |-> film_name,
     seances      |-> generate_seance_summary_for_film(film_data_df),
     film_path    |-> RemoveDotJpg(image_filename_of(film_data_df[1])),
     release_date |-> jour_sortie(film_data_df[1]),
     synopsis     |-> synopsis_of(film_data_df[1])]

render_day_html(day_name, day_data_df) ==
    LET films == SortedStr(Unique(Column(day_data_df, film)))
    IN  [template   |-> "day_section.html",
         day        |-> day_name,
         films_html |-> [i \in 1..Len(films) |->
                            render_film_html(films[i], Where(day_data_df, film, films[i]))]]

index_by_day(d) == CHOOSE i \in 0..6 : DAYS_BY_INDEX[i] = d

\* the key without the rotation: the calendar index
DayKeyCalendar(d, today_weekday_index) == index_by_day(d)

\* the sort key of line 273
DayKey(d, today_weekday_index) == (index_by_day(d) - today_weekday_index + 7) % 7

RECURSIVE InsertDay(_, _, _)
InsertDay(sorted, d, t) ==
    IF sorted = <<>> THEN <<d>>
    ELSE IF DayKey(d, t) < DayKey(Head(sorted), t) THEN <<d>> \o sorted
    ELSE <<Head(sorted)>> \o InsertDay(Tail(sorted), d, t)

RECURSIVE SortedDays(_, _)
SortedDays(days, t) ==
    IF days = <<>> THEN <<>>
    ELSE InsertDay(SortedDays(SubSeq(days, 1, Len(days) - 1), t), days[Len(days)], t)

\* lines 266-283: the categories in rotated order, one block per category
DayBlocks(results_df, today_weekday_index) ==
    LET day_categories == SortedDays(Unique(Column(results_df, jour)), today_weekday_index)
    IN  [i \in 1..Len(day_categories) |->
            render_day_html(day_categories[i], Where(results_df, jour, day_categories[i]))]

NoDataContent == <<[html |-> "<p>No showtime data available at the moment.</p>"]>>

\* index_template.render(content=...)
IndexPage(content) == [template |-> "index.html", content |-> content]

NoOutput == [template |-> "nothing printed"]

----------------------------------------------------------------------------
(* Sample markup *)

T1400 == <<"1", "4", ":", "0", "0">>
T1630 == <<"1", "6", ":", "3", "0">>
T1800 == <<"1", "8", ":", "0", "0">>

HSingular == [singular |-> T1400, plural |-> None]
HPlural == [singular |-> None, plural |-> <<" ">> \o T1630 \o <<"\n">>]
HNeither == [singular |-> None, plural |-> None]
HBlankSingular == [singular |-> <<" ">>, plural |-> T1800]

HourElements == {HSingular, HPlural, HNeither, HBlankSingular}

TitleA == <<"A">>
TitleB == <<"B">>
UrlA == <<"u">>

ImgNone == [present |-> FALSE, data_src |-> None, src |-> None]
ImgLazy == [present |-> TRUE, data_src |-> UrlA, src |-> None]
ImgSrc == [present |-> TRUE, data_src |-> None, src |-> UrlA]
ImgBare == [present |-> TRUE, data_src |-> None, src |-> None]

Card(title, hours, img, dl, fault) ==
    [title |-> title, synopsis |-> None, date |-> None, anchor |-> hours # <<>>,
     hours |-> hours, img |-> img, dl |-> dl, fault |-> fault]

Document(cards) == [holder |-> TRUE, cards |-> cards, none |-> FALSE]

\* a page without the showtimes-list-holder div
EmptyListing == [holder |-> FALSE, cards |-> <<>>, none |-> FALSE]

\* The listings the site serves in the pipeline's runs
ShownCard == Card(TitleA, <<HSingular>>, ImgLazy, "ok", 0)

Listings ==
    { EmptyListing,
      Document(<<ShownCard>>),
      Document(<<ShownCard, Card(TitleA, <<HSingular>>, ImgNone, "ok", 1)>>),
      Document(<<Card(TitleA, <<HSingular>>, ImgLazy, "fs_open", 0), ShownCard>>) }

\* What one GET of a listing page is answered with: a listing, an error
\* status whose body happens to hold a listing, or no answer at all
Responses ==
    {<<"ok", d>> : d \in Listings}
        \cup {<<"http_error", Document(<<ShownCard>>)>>}
        \cup {<<f, NoDocument>> : f \in FetchFailures \ {"http_error"}}

----------------------------------------------------------------------------
(* main *)

ScrapedCinemas == SubSeq(CINEMAS_BY_CODE, 1, Min2(MaxCinemas, Len(CINEMAS_BY_CODE)))

\* leaving the page loop of one (cinema, date): the next date, the next
\* cinema, or the end of the scraping loop
NextPair ==
    IF di + 1 < NUM_DAYS_TO_SCRAPE
    THEN /\ di' = di + 1 /\ pn' = 1 /\ UNCHANGED <<ci, pc>>
    ELSE IF ci < Len(ScrapedCinemas)
    THEN /\ ci' = ci + 1 /\ di' = 0 /\ pn' = 1 /\ UNCHANGED pc
    ELSE /\ pc' = "output" /\ UNCHANGED <<ci, di, pn>>

\* the page loop without the break of line 250
AfterPage_no_break(page_seances) ==
    IF pn < Len(PAGES_TO_SCRAPE) THEN pn' = pn + 1 /\ UNCHANGED <<ci, di, pc>>
    ELSE NextPair

\* lines 242-250: what follows one page's records
AfterPage(page_seances) ==
    IF page_seances # <<>>
    THEN IF pn < Len(PAGES_TO_SCRAPE) THEN pn' = pn + 1 /\ UNCHANGED <<ci, di, pc>>
         ELSE NextPair
    ELSE NextPair

\* One iteration of the innermost loop (lines 240-250)
ScrapePage(outcome, document) ==
    /\ pc = "scrape"
    /\ LET r == scrape_single_page(outcome, document, files)
           cinema_name == ScrapedCinemas[ci].name
           day_name == DAYS_BY_INDEX[Weekday(di)]
           rows == [i \in 1..Len(r.records) |-> <<cinema_name, day_name>> \o r.records[i]]
           entry == [page |-> PAGES_TO_SCRAPE[pn],
                     failed |-> outcome \in FetchFailures,
                     printed |-> r.printed,
                     n |-> Len(r.records)]
       IN  /\ Len(scraped_data) + Len(rows) <= MaxScraped
           /\ files' = r.files
           /\ requests' = IF pn = 1 THEN <<entry>> ELSE Append(requests, entry)
           /\ IF r.raised
              THEN /\ pc' = "aborted"
                   /\ UNCHANGED <<ci, di, pn, scraped_data>>
              ELSE /\ scraped_data' = scraped_data \o rows
                   /\ AfterPage(r.records)
    /\ UNCHANGED <<today, output, arg, ret>>

\* the output stage without the early return of lines 252-258
PrintPlaceholder_empty_shell ==
    /\ pc = "output"
    /\ scraped_data = <<>>
    /\ output' = IndexPage(DayBlocks(scraped_data, today))
    /\ pc' = "done"
    /\ UNCHANGED <<today, ci, di, pn, scraped_data, files, requests, arg, ret>>

\* lines 252-258
PrintPlaceholder ==
    /\ pc = "output"
    /\ scraped_data = <<>>
    /\ output' = IndexPage(NoDataContent)
    /\ pc' = "done"
    /\ UNCHANGED <<today, ci, di, pn, scraped_data, files, requests, arg, ret>>

\* lines 260-289
PrintPage ==
    /\ pc = "output"
    /\ scraped_data # <<>>
    /\ output' = IndexPage(DayBlocks(scraped_data, today))
    /\ pc' = "done"
    /\ UNCHANGED <<today, ci, di, pn, scraped_data, files, requests, arg, ret>>

Init ==
    /\ pc = "scrape"
    /\ today \in 0..6
    /\ ci = 1 /\ di = 0 /\ pn = 1
    /\ scraped_data = <<>>
    /\ files \in {{}, {ImageFilename(TitleA)}}
    /\ output = NoOutput
    /\ requests = <<>>
    /\ arg = None
    /\ ret = None

Next ==
    \/ \E response \in Responses : ScrapePage(response[1], response[2])
    \/ PrintPlaceholder
    \/ PrintPage

Spec == Init /\ [][Next]_vars

----------------------------------------------------------------------------
(* Properties of the scraping loop and of the output stage (Spec) *)

\* position of a (cinema, date) in the nested order of lines 238-239
PairIndex(c, d) == (c - 1) * NUM_DAYS_TO_SCRAPE + d

LastPair == PairIndex(Len(ScrapedCinemas), NUM_DAYS_TO_SCRAPE - 1)

MovedToNextPair ==
    IF PairIndex(ci, di) = LastPair
    THEN pc' = "output"
    ELSE /\ pc' = "scrape"
         /\ PairIndex(ci', di') = PairIndex(ci, di) + 1
         /\ di' \in 0..(NUM_DAYS_TO_SCRAPE - 1)
         /\ pn' = 1

\* a loop iteration whose page GET fails
FailedFetchStep ==
    \E response \in Responses :
        /\ response[1] \in FetchFailures
        /\ ScrapePage(response[1], response[2])

\* C1: a page fetch that fails in any way (connection error, timeout, error
\* status, retries exhausted) gives the sentinel and zero records, raises
\* nothing, and the loop goes on to the next (cinema, date), or to the
\* output stage after the last one; the run aborts only on a fetched page.
C1_FetchFailureIsNoData ==
    /\ [](\A response \in Responses :
            response[1] \in FetchFailures =>
                /\ fetch_url_content(response[1], response[2]) = NoDocument
                /\ scrape_single_page(response[1], response[2], files).records = <<>>
                /\ ~scrape_single_page(response[1], response[2], files).raised)
    /\ [](\A i \in 1..Len(requests) :
            requests[i].failed =>
                /\ requests[i].n = 0
                /\ i = Len(requests)
                /\ pc # "aborted")
    /\ [][FailedFetchStep =>
            /\ scraped_data' = scraped_data
            /\ files' = files
            /\ output' = output
            /\ MovedToNextPair]_vars

\* a failed fetch of the last (cinema, date) has led to the output stage
C1_Witness ==
    /\ pc = "done"
    /\ requests # <<>>
    /\ requests[Len(requests)].failed

\* C2: per (cinema, date) page 1 is requested once and first; page 2 is
\* requested exactly when page 1 gave records; a page without records ends
\* the pair's requests, and the loop moves to the next pair in nested order.
C2_Requests ==
    requests # <<>> =>
        /\ requests[1].page = 1
        /\ Len(requests) <= 2
        /\ Len(requests) = 2 => requests[2].page = 2 /\ requests[1].n > 0
        /\ (pc = "scrape" /\ pn = 2) => Len(requests) = 1 /\ requests[1].n > 0
        /\ (pc \in {"output", "done"} \/ (pc = "scrape" /\ pn = 1)) =>
                (Len(requests) = 2 <=> requests[1].n > 0)

C2_Step ==
    (pc = "scrape" /\ pc' # "aborted") =>
        LET e == requests'[Len(requests')]
        IN  /\ e.page = PAGES_TO_SCRAPE[pn]
            /\ e.n = Len(scraped_data') - Len(scraped_data)
            /\ IF pn = 1 /\ e.n > 0
               THEN ci' = ci /\ di' = di /\ pn' = 2 /\ pc' = "scrape"
               ELSE MovedToNextPair

C2_Pagination == [](pc \in {"scrape", "output", "done"} => C2_Requests) /\ [][C2_Step]_vars

\* both pages of a pair were requested, and the loop is at a later cinema
C2_Witness ==
    /\ pc = "scrape" /\ pn = 1 /\ ci = 2
    /\ Len(requests) = 2 /\ requests[2].n > 0

\* the weekday labels of the printed day blocks, in order
DayLabels == [i \in 1..Len(output.content) |-> output.content[i].day]

\* the week starting today: today, today + 1, ..., today + 6
RotatedWeek == [k \in 1..7 |-> DAYS_BY_INDEX[(today + k - 1) % 7]]

PlaceInWeek(d) == CHOOSE k \in 1..7 : RotatedWeek[k] = d

\* C6: the day blocks are the days that have records, each once, in the
\* order of the week rotated to start at the current weekday; on a Wednesday
\* that is the order Mercredi, Jeudi, Vendredi, Samedi, Dimanche, Lundi, Mardi.
C6_DayOrder ==
    (pc = "done" /\ scraped_data # <<>>) =>
        /\ {DayLabels[i] : i \in 1..Len(DayLabels)}
                = {jour(scraped_data[i]) : i \in 1..Len(scraped_data)}
        /\ \A i, j \in 1..Len(DayLabels) :
                i < j => PlaceInWeek(DayLabels[i]) < PlaceInWeek(DayLabels[j])
        /\ today = 2 =>
                RotatedWeek = <<"Mercredi", "Jeudi", "Vendredi", "Samedi",
                                "Dimanche", "Lundi", "Mardi">>

\* two day blocks whose calendar order is the reverse of their printed order
C6_Witness ==
    /\ pc = "done"
    /\ output.template = "index.html"
    /\ scraped_data # <<>>
    /\ Len(output.content) = 2
    /\ index_by_day(output.content[1].day) > index_by_day(output.content[2].day)
    /\ jour(scraped_data[1]) = output.content[2].day

\* C7: a run whose scraping loop gathered nothing prints the page shell
\* around the 'No showtime data available' placeholder and ends; no day is
\* rendered, and no printed page has empty content.
C7_Placeholder ==
    /\ (pc = "output" /\ scraped_data = <<>>) => ENABLED PrintPlaceholder /\ ~ENABLED PrintPage
    /\ (pc = "done" /\ scraped_data = <<>>) =>
            /\ output.template = "index.html"
            /\ output.content =
                    <<[html |-> "<p>No showtime data available at the moment.</p>"]>>
    /\ pc = "done" => output.content # <<>>

C7_Witness == pc = "done" /\ scraped_data = <<>>

\* the first card of a fetched listing meets a filesystem error while its
\* thumbnail is written, and no card of the listing fails before its title
FsErrorStep ==
    \E d \in Listings :
        /\ d.holder /\ d.cards # <<>>
        /\ LET div_element == d.cards[1]
           IN  /\ div_element.fault = 0
               /\ div_element.dl \in {"fs_open", "fs_write"}
               /\ Truthy(ThumbnailUrl(div_element))
               /\ ImageFilename(Strip(div_element.title)) \notin files
        /\ \A i \in 1..Len(d.cards) : d.cards[i].fault # 1
        /\ ScrapePage("ok", d)

\* C10 as stated: a filesystem error on a thumbnail write aborts the run
C10_FsErrorAborts == [][FsErrorStep => pc' = "aborted"]_vars

\* C10 as amended: the filesystem error is caught by parse_movie_div's
\* handler; the message is printed, the card gives no record, the other
\* cards of the page give theirs and the run is not aborted.
C10_FsErrorCaught ==
    [][FsErrorStep =>
        /\ pc' # "aborted"
        /\ requests'[Len(requests')].printed = <<"OSError">>
        /\ \E d \in Listings :
              /\ d.holder /\ d.cards # <<>> /\ d.cards[1].dl \in {"fs_open", "fs_write"}
              /\ Len(scraped_data') - Len(scraped_data)
                    = Len(parse_page_results(Document(Tail(d.cards)), files).records)]_vars

\* a run that met the filesystem error has printed its page
C10_Witness ==
    /\ pc = "done"
    /\ output.template = "index.html"
    /\ \E i \in 1..Len(requests) : requests[i].printed = <<"OSError">>

----------------------------------------------------------------------------
(* The functions on their own: each specification draws the arguments of   *)
(* one function from a bounded set and applies the function.               *)

\* the variables of main, at rest
MainAtRest ==
    /\ today = 0 /\ ci = 1 /\ di = 0 /\ pn = 1
    /\ scraped_data = <<>>
    /\ output = NoOutput
    /\ requests = <<>>

SeqsUpTo(S, n) == UNION {[1..k -> S] : k \in 0..n}

(* the cache filename of a film title: lines 96, 109-110 *)

TitleAlphabet == {"a", " ", "\"", ":", "<", ">", "|", "*", "?", "\r", "\n", "/"}

DuneTitle == <<"D", "u", "n", "e", ":", " ", "P", "a", "r", "t", " ", "T", "w", "o">>

\* film_name is the stripped text of the title link
FilmNames == {Strip(t) : t \in SeqsUpTo(TitleAlphabet, MaxTitleLen)} \cup {DuneTitle, UnknownFilm}

InitSanitize ==
    /\ pc = "film_name"
    /\ arg \in FilmNames
    /\ ret = None
    /\ files = {}
    /\ MainAtRest

CacheFilename ==
    /\ pc = "film_name"
    /\ ret' = ImageFilename(arg)
    /\ pc' = "image_filename"
    /\ UNCHANGED <<today, ci, di, pn, scraped_data, files, output, requests, arg>>

SpecSanitize == InitSanitize /\ [][CacheFilename]_vars

Unsafe == {"\"", ":", "<", ">", "|", "*", "?", "\r", "\n", "/"}

KeptChar(c) == c \notin Unsafe

\* s without the white space at its two ends
Trimmed(s) ==
    LET inked == {i \in 1..Len(s) : ~IsSpace(s[i])}
    IN  IF inked = {} THEN <<>>
        ELSE SubSeq(s, CHOOSE i \in inked : \A j \in inked : i <= j,
                       CHOOSE i \in inked : \A j \in inked : i >= j)

\* C9 as stated: the filename is the title without the unsafe characters,
\* every other character kept, followed by .jpg
C9_OnlyUnsafeRemoved ==
    pc = "image_filename" => ret = SelectSeq(arg, KeptChar) \o <<".", "j", "p", "g">>

\* C9 as amended: the filename is the title without the unsafe characters,
\* then without the white space this leaves at its two ends, followed by
\* .jpg; it holds no unsafe character; 'Dune: Part Two' gives
\* 'Dune Part Two.jpg'.
C9_Filename ==
    pc = "image_filename" =>
        /\ ret = Trimmed(SelectSeq(arg, KeptChar)) \o <<".", "j", "p", "g">>
        /\ \A i \in 1..Len(ret) : ret[i] \notin Unsafe
        /\ arg = DuneTitle =>
              ret = <<"D", "u", "n", "e", " ", "P", "a", "r", "t", " ", "T", "w", "o",
                      ".", "j", "p", "g">>

C9_Witness == pc = "image_filename" /\ arg = DuneTitle

(* one card: parse_movie_div *)

RawTitles == {None, <<"A">>, <<" ", "A", ":">>}

Cards ==
    {Card(t, h, i, dl, f) :
        t \in RawTitles, h \in SeqsUpTo(HourElements, MaxHours),
        i \in {ImgNone, ImgLazy, ImgSrc, ImgBare}, dl \in DownloadOutcomes, f \in 0..3}

CachedBefore == {{}, {ImageFilename(TitleA)}}

InitCard ==
    /\ pc = "card"
    /\ arg \in [div_element : Cards, disk : CachedBefore]
    /\ ret = None
    /\ files = arg.disk
    /\ MainAtRest

ParseMovieDiv ==
    /\ pc = "card"
    /\ ret' = parse_movie_div(arg.div_element, files)
    /\ files' = ret'.files
    /\ pc' = "card_parsed"
    /\ UNCHANGED <<today, ci, di, pn, scraped_data, output, requests, arg>>

SpecCard == InitCard /\ [][ParseMovieDiv]_vars

\* the hour blocks of a card whose parsed value is not empty
ValidHours(div_element) ==
    {i \in 1..Len(div_element.hours) :
        /\ div_element.anchor
        /\ parse_showtime_hour(div_element.hours[i]) # None
        /\ parse_showtime_hour(div_element.hours[i]) # <<>>}

\* the i-th valid hour block
NthValid(div_element, i) ==
    CHOOSE j \in ValidHours(div_element) :
        Cardinality({k \in ValidHours(div_element) : k <= j}) = i

\* an exception is raised while the card is processed: a parsing fault, or
\* a filesystem error while its thumbnail is written
CardRaises(div_element, disk) ==
    \/ div_element.fault # 0
    \/ /\ div_element.img.present
       /\ (div_element.img.data_src # None \/ div_element.img.src # None)
       /\ ImageFilename(IF div_element.title = None THEN UnknownFilm
                        ELSE Trimmed(div_element.title)) \notin disk
       /\ div_element.dl \in {"fs_open", "fs_write"}

\* C3 as stated: every card gives as many records as it has valid hours
C3_CountIsValidHours ==
    pc = "card_parsed" =>
        Len(ret.records) = Cardinality(ValidHours(arg.div_element))

\* C3 as amended: a card processed without an exception gives one record
\* per valid showtime hour, in order, and none when it has no valid hour; a
\* card whose processing raises an exception gives no record, whatever its
\* hours.
C3_RecordsPerCard ==
    pc = "card_parsed" =>
        IF CardRaises(arg.div_element, arg.disk)
        THEN ret.records = <<>>
        ELSE /\ Len(ret.records) = Cardinality(ValidHours(arg.div_element))
             /\ \A i \in 1..Len(ret.records) :
                    ret.records[i][4] =
                        parse_showtime_hour(arg.div_element.hours[NthValid(arg.div_element, i)])

\* a card with a valid and an invalid hour block has given its one record
C3_Witness ==
    /\ pc = "card_parsed"
    /\ Len(arg.div_element.hours) = 2
    /\ Len(ret.records) = 1
    /\ ~CardRaises(arg.div_element, arg.disk)

(* one page: parse_page_results *)

TwoHourCard == Card(TitleB, <<HPlural, HSingular>>, ImgNone, "ok", 0)

PageCards ==
    { ShownCard, TwoHourCard,
      Card(TitleA, <<HNeither>>, ImgSrc, "ok", 0),
      Card(TitleA, <<HSingular>>, ImgNone, "ok", 1),
      Card(TitleA, <<HSingular>>, ImgNone, "ok", 2),
      Card(TitleB, <<HSingular>>, ImgLazy, "ok", 3) }

Documents == {NoDocument, EmptyListing} \cup {Document(c) : c \in SeqsUpTo(PageCards, MaxCards)}

InitPage ==
    /\ pc = "page"
    /\ arg \in [document : Documents, disk : CachedBefore]
    /\ ret = None
    /\ files = arg.disk
    /\ MainAtRest

ParsePageResults ==
    /\ pc = "page"
    /\ ret' = parse_page_results(arg.document, files)
    /\ files' = ret'.files
    /\ pc' = "page_parsed"
    /\ UNCHANGED <<today, ci, di, pn, scraped_data, output, requests, arg>>

SpecPage == InitPage /\ [][ParsePageResults]_vars

\* the cards of a page that are processed without a parsing exception
RECURSIVE SoundCards(_)
SoundCards(movie_cards) ==
    IF movie_cards = <<>> THEN <<>>
    ELSE IF Head(movie_cards).fault = 0
         THEN <<Head(movie_cards)>> \o SoundCards(Tail(movie_cards))
         ELSE SoundCards(Tail(movie_cards))

\* the records of a sequence of cards, each parsed on its own
RECURSIVE RecordsOfEach(_, _)
RecordsOfEach(movie_cards, disk) ==
    IF movie_cards = <<>> THEN <<>>
    ELSE parse_movie_div(Head(movie_cards), disk).records
            \o RecordsOfEach(Tail(movie_cards), disk)

\* C4: a parsing exception raised anywhere in the processing of one card
\* stays inside parse_movie_div: the card gives no record, and the page
\* gives the records of all its other cards; nothing leaves the parser.
C4_CardExceptionContained ==
    (pc = "page_parsed" /\ arg.document.holder) =>
        /\ ~ret.raised
        /\ ret.records = RecordsOfEach(SoundCards(arg.document.cards), arg.disk)

(* the thumbnail cache: download_image called again and again *)

Filepaths == {ImageFilename(TitleA), ImageFilename(TitleB)}
Urls == {UrlA, <<"v">>}

InitImage ==
    /\ pc = "thumbnails"
    /\ files \in SUBSET Filepaths
    /\ arg = None
    /\ ret = <<>>
    /\ MainAtRest

\* one call of download_image; ret is the log of the calls made
DownloadImage(url, filepath, dl) ==
    /\ pc = "thumbnails"
    /\ Len(ret) < MaxCalls
    /\ LET d == download_image(url, filepath, files, dl)
       IN  /\ files' = d.files
           /\ ret' = Append(ret, [url |-> url, filepath |-> filepath,
                                  existed |-> filepath \in files,
                                  fetched |-> d.fetched, result |-> d.result])
    /\ UNCHANGED <<pc, today, ci, di, pn, scraped_data, output, requests, arg>>

NextImage ==
    \E url \in Urls, filepath \in Filepaths, dl \in DownloadOutcomes :
        DownloadImage(url, filepath, dl)

SpecImage == InitImage /\ [][NextImage]_vars

SameThumbnail(a, b) == a.filepath = b.filepath /\ a.url = b.url

\* C8 as stated: two calls in sequence for the same file and URL make
\* exactly one network fetch between them
C8_ExactlyOneFetch ==
    pc = "thumbnails" =>
        \A i \in 1..(Len(ret) - 1) :
            SameThumbnail(ret[i], ret[i + 1]) => ret[i].fetched + ret[i + 1].fetched = 1

\* C8 as amended: of two calls in sequence for the same file and URL, the
\* second makes no fetch when the file exists after the first; the two make
\* one fetch between them when the first call downloads and writes the
\* file, none when the file was there before the first call, and two when
\* the first call's fetch fails (no file is written, the second call tries
\* again).
C8_SecondCallSkipsCachedFile ==
    pc = "thumbnails" =>
        \A i \in 1..(Len(ret) - 1) :
            SameThumbnail(ret[i], ret[i + 1]) =>
                /\ ret[i].result = "True" =>
                        ret[i].fetched = 1 /\ ret[i + 1].fetched = 0
                /\ ret[i].existed =>
                        ret[i].fetched = 0 /\ ret[i + 1].fetched = 0
                /\ (~ret[i].existed /\ ret[i].result = "False") =>
                        ret[i].fetched = 1 /\ ret[i + 1].fetched = 1
                /\ ret[i + 1].fetched = 0 <=> ret[i + 1].existed

\* the first of two calls downloaded the file, the second found it
C8_Witness ==
    /\ pc = "thumbnails"
    /\ Len(ret) = 2
    /\ SameThumbnail(ret[1], ret[2])
    /\ ret[1].result = "True"
    /\ ret[2].fetched = 0

(* one film block: render_film_html, generate_seance_summary_for_film *)

Bastille == <<"B", "a", "s", "t", "i", "l", "l", "e">>
Nation == <<"N", "a", "t", "i", "o", "n">>

CinemaNames == {Bastille, Nation, bercy}
Showtimes == {T1400, T1630, T1800}

FilmRow(cinema_name, showtime) ==
    <<cinema_name, "Lundi", TitleA, <<>>, NoSynopsis, showtime, ImageFilename(TitleA)>>

FilmFrames ==
    UNION {[1..k -> {FilmRow(c, h) : c \in CinemaNames, h \in Showtimes}] : k \in 1..MaxRows}

InitSummary ==
    /\ pc = "film"
    /\ arg \in FilmFrames
    /\ ret = None
    /\ files = {}
    /\ MainAtRest

RenderFilm ==
    /\ pc = "film"
    /\ ret' = render_film_html(film(arg[1]), arg)
    /\ pc' = "film_rendered"
    /\ UNCHANGED <<today, ci, di, pn, scraped_data, files, output, requests, arg>>

SpecSummary == InitSummary /\ [][RenderFilm]_vars

\* the text cut at its newlines
RECURSIVE SplitLines(_)
SplitLines(s) ==
    IF \A i \in 1..Len(s) : s[i] # "\n" THEN <<s>>
    ELSE LET n == CHOOSE i \in 1..Len(s) : s[i] = "\n" /\ \A j \in 1..(i - 1) : s[j] # "\n"
         IN  <<SubSeq(s, 1, n - 1)>> \o SplitLines(SubSeq(s, n + 1, Len(s)))

\* the texts of a set in ascending order
Ascending(S) ==
    [k \in 1..Cardinality(S) |->
        CHOOSE x \in S : Cardinality({y \in S : StrLess(y, x)}) = k - 1]

CinemasOf(df) == {df[i][1] : i \in 1..Len(df)}
ShowtimesAt(df, c) == {df[i][6] : i \in {j \in 1..Len(df) : df[j][1] = c}}

\* C5: the summary of a film holds one line per cinema that has a record
\* of it, in ascending order of the cinema names; a line is the name, a
\* space, the cinema's distinct showtimes in ascending order, and <br>.
\* Records (Bastille, 14:00) and (Nation, 16:30) give 'Bastille 14:00<br>'
\* then 'Nation 16:30<br>'.
C5_SeanceSummary ==
    pc = "film_rendered" =>
        LET lines == SplitLines(ret.seances)
            names == Ascending(CinemasOf(arg))
        IN  /\ Len(lines) = Cardinality(CinemasOf(arg))
            /\ \A k \in 1..Len(lines) :
                    lines[k] = names[k] \o <<" ">>
                                 \o Join(Ascending(ShowtimesAt(arg, names[k])), <<"/">>)
                                 \o <<"<", "b", "r", ">">>
            /\ arg = <<FilmRow(Nation, T1630), FilmRow(Bastille, T1400)>> =>
                    lines = << <<"B", "a", "s", "t", "i", "l", "l", "e", " ", "1", "4", ":",
                                 "0", "0", "<", "b", "r", ">">>,
                               <<"N", "a", "t", "i", "o", "n", " ", "1", "6", ":", "3", "0",
                                 "<", "b", "r", ">">> >>

\* two cinemas, the later one first in the frame, one showtime given twice
C5_Witness ==
    /\ pc = "film_rendered"
    /\ Len(arg) = 3
    /\ arg[1] = FilmRow(Nation, T1630)
    /\ arg[2] = FilmRow(Bastille, T1800)
    /\ arg[3] = FilmRow(Nation, T1630)

====
